---- MODULE Spec2Model ----
(***************************************************************************)
(* A model of dis_snek's Scale registration mechanism and hook lists       *)
(* (models/scale.py), of the mutating operations, reference accessors and  *)
(* payload decoding of CustomEmoji and Sticker (models/discord_objects/    *)
(* emoji.py, sticker.py) and of Asset retrieval (asset.py).                *)
(*                                                                         *)
(* Python objects are modelled by their identity: a declared attribute of  *)
(* a Scale class is the pair <<class, index in cls.__dict__>>, a Scale     *)
(* instance is its index in the sequence of constructed instances.         *)
(***************************************************************************)
EXTENDS Integers, Sequences, FiniteSets, TLC

\* ------------------------------------------------------------------ bounds
MaxAttrs == 2        \* attributes declared in one Scale class body
MaxInstances == 2    \* Scale(...) constructions in one behaviour
MaxSheds == 2        \* shed() calls in one behaviour
MaxCalls == 2        \* edit()/delete() invocations in one behaviour
MaxTasks == 2        \* coroutines suspended at the HTTP collaborator at once
MaxHooks == 3        \* callables accepted by the add_scale_* methods in one behaviour
MaxSize == 8192      \* Asset.get sizes range over -MaxSize..MaxSize
MaxDecodes == 2      \* CustomEmoji.from_dict calls in one behaviour
MaxRoles == 2        \* entries of the roles list of an emoji payload

\* ---------------------------------------------------------------- universe
ScaleClasses == {"A", "B"}
Bots == {"bot1", "bot2"}

\* What a class body can declare: the kinds Scale.__new__ tells apart with
\* isinstance, a command's name and, for interaction commands, its scope.
Descriptors ==
    { [kind |-> "MessageCommand", name |-> "x", scope |-> "-"],
      [kind |-> "MessageCommand", name |-> "y", scope |-> "-"],
      [kind |-> "InteractionCommand", name |-> "x", scope |-> "guild"],
      [kind |-> "Listener", name |-> "on_event", scope |-> "-"],
      [kind |-> "other", name |-> "helper", scope |-> "-"] }

RECURSIVE SeqsUpTo(_, _)
SeqsUpTo(S, n) ==
    IF n = 0 THEN {<<>>}
    ELSE LET shorter == SeqsUpTo(S, n - 1)
         IN shorter \cup {Append(s, d) : s \in shorter, d \in S}

\* Class bodies under test: class A declares any sequence of up to MaxAttrs
\* attributes, class B at most one (enough to collide with A's names).
Declarations(c) == IF c = "A" THEN SeqsUpTo(Descriptors, MaxAttrs)
                   ELSE SeqsUpTo(Descriptors, 1)

\* ------------------------------------------------------------ dictionaries
\* A Python dict is a function whose DOMAIN is its key set.
EmptyDict == [k \in {} |-> 0]
DictHas(d, k) == k \in DOMAIN d
DictSet(d, k, v) == [j \in DOMAIN d \cup {k} |-> IF j = k THEN v ELSE d[j]]
DictPop(d, k) == [j \in DOMAIN d \ {k} |-> d[j]]

VARIABLES
    classDict,   \* cls.__dict__ of each Scale subclass: its declared attributes, in order
    clsAttr,     \* the attributes __new__ assigns on the class (cls.bot, cls._commands, ...)
    objState,    \* per declared object: val.scale and the chain of functools.partial bindings
    instances,   \* the constructed Scale instances, in construction order
    bots,        \* per client: commands, interactions, listeners, scales
    sheds,       \* number of shed() calls so far
    last,        \* the last operation: what was called, what it raised, the clients before it
    ent,         \* the CustomEmoji and the Sticker under test: their fields
    cache,       \* per entity kind, the ids resident in the client's cache
    remote,      \* per entity kind, the ids the collaborator can resolve
    tasks,       \* coroutines suspended at their `await self._client.http...`
    ncalls,      \* number of edit/delete invocations so far
    inv,         \* the last edit/delete invocation: arguments, what it raised, the calls it issued
    fin,         \* the last coroutine that finished after its await, and how
    acc,         \* the last accessor read: what it returned, the lookups its handle made
    clsHooks,    \* per class: the hook lists __new__ assigns on the class
    instHooks,   \* per instance: the hook lists set as attributes of the instance
    added,       \* per instance and hook list: what its own add method accepted, in order
    hk,          \* the last add_scale_* call: its argument, what it raised, the lists before
    asset,       \* the Asset under test: its url and hash
    req,         \* the last Asset.get/save call: arguments, what it raised, the CDN requests
    dec          \* the last CustomEmoji.from_dict: payload, cache insertions, the emoji built

scaleVars == <<classDict, clsAttr, objState, instances, bots, sheds, last>>
entityVars == <<ent, cache, remote, tasks, ncalls, inv, fin, acc>>
hookVars == <<clsHooks, instHooks, added, hk>>
assetVars == <<asset, req>>
vars == <<scaleVars, entityVars, hookVars, assetVars, dec>>

ObjectsOf(c) == {<<c, i>> : i \in 1..Len(classDict[c])}
Desc(o) == classDict[o[1]][o[2]]
IsCommand(o) == Desc(o).kind \in {"InteractionCommand", "MessageCommand"}
IsInteractionCommand(o) == Desc(o).kind = "InteractionCommand"
IsMessageCommand(o) == Desc(o).kind = "MessageCommand"
IsListener(o) == Desc(o).kind = "Listener"

\* ------------------------------------------------------------- the client
\* The client (dis_snek.client.Snake) is a collaborator of Scale; its tables
\* follow the specification: name-keyed commands, scope+name-keyed
\* interactions, a listener collection, last registration wins.
NewClient ==
    [commands |-> EmptyDict, interactions |-> EmptyDict,
     listeners |-> <<>>, scales |-> EmptyDict]

add_message_command(client, o) ==
    [client EXCEPT !.commands = DictSet(@, Desc(o).name, o)]

add_interaction(client, o) ==
    LET scoped == IF DictHas(client.interactions, Desc(o).scope)
                  THEN client.interactions[Desc(o).scope] ELSE EmptyDict
    IN [client EXCEPT !.interactions =
            DictSet(@, Desc(o).scope, DictSet(scoped, Desc(o).name, o))]

add_listener(client, o) ==
    [client EXCEPT !.listeners = Append(@, o)]

\* ------------------------------------------------------------ wrap_partial
\* obj.callback = functools.partial(obj.callback, cls): one more bound
\* leading argument on the (shared) command or listener object.
wrap_partial(ostate, inst) == [ostate EXCEPT !.bound = Append(@, inst)]

\* ----------------------------------------------------------- Scale.__new__
\* One iteration of `for name, val in cls.__dict__.items()`. st carries the
\* client, the objects, new_cls._commands, new_cls.listeners and the log of
\* calls made on the client.
\* Mutant of ScanAttr: the isinstance dispatch is lost and every command is
\* handed to add_message_command.
ScanAttr_NoKindDispatch(o, inst, st) ==
    IF IsCommand(o) THEN
        [st EXCEPT
            !.objs = [@ EXCEPT ![o] = wrap_partial([@ EXCEPT !.scale = inst], inst)],
            !.commands = Append(@, o),
            !.client = add_message_command(@, o),
            !.calls = Append(@, <<"add_message_command", o>>)]
    ELSE IF IsListener(o) THEN
        [st EXCEPT
            !.objs = [@ EXCEPT ![o] = wrap_partial(@, inst)],
            !.client = add_listener(@, o),
            !.listeners = Append(@, o),
            !.calls = Append(@, <<"add_listener", o>>)]
    ELSE st

ScanAttr(o, inst, st) ==
    IF IsCommand(o) THEN
        [st EXCEPT
            !.objs = [@ EXCEPT ![o] = wrap_partial([@ EXCEPT !.scale = inst], inst)],
            !.commands = Append(@, o),
            !.client = IF IsInteractionCommand(o)
                       THEN add_interaction(@, o)
                       ELSE add_message_command(@, o),
            !.calls = Append(@, IF IsInteractionCommand(o)
                                THEN <<"add_interaction", o>>
                                ELSE <<"add_message_command", o>>)]
    ELSE IF IsListener(o) THEN
        [st EXCEPT
            !.objs = [@ EXCEPT ![o] = wrap_partial(@, inst)],
            !.client = add_listener(@, o),
            !.listeners = Append(@, o),
            !.calls = Append(@, <<"add_listener", o>>)]
    ELSE st

RECURSIVE ScanDict(_, _, _, _)
ScanDict(c, i, inst, st) ==
    IF i > Len(classDict[c]) THEN st
    ELSE ScanDict(c, i + 1, inst, ScanAttr(<<c, i>>, inst, st))

\* cls.scale_checks = [] ; cls.scale_prerun = [] ; cls.scale_postrun = []
HookLists == {"scale_checks", "scale_prerun", "scale_postrun"}
NewHookLists == [l \in HookLists |-> <<>>]

\* cls.__name = cls.__name__ : the (name-mangled) class attribute _Scale__name
ClassName(c) == c

Scale_new(c, b) ==
    /\ Len(instances) < MaxInstances
    /\ LET inst == Len(instances) + 1
           registered == [bots[b] EXCEPT !.scales = DictSet(@, ClassName(c), [class |-> c])]
           st == ScanDict(c, 1, inst,
                          [client |-> registered, objs |-> objState,
                           commands |-> <<>>, listeners |-> <<>>, calls |-> <<>>])
       IN /\ clsAttr' = [clsAttr EXCEPT ![c] =
                            [constructed |-> TRUE, bot |-> b, name |-> ClassName(c),
                             commands |-> st.commands, listeners |-> st.listeners]]
          /\ objState' = st.objs
          /\ bots' = [bots EXCEPT ![b] = st.client]
          /\ instances' = Append(instances, [cls |-> c, bot |-> b])
          /\ last' = [op |-> "new", inst |-> inst, cls |-> c, bot |-> b,
                      raised |-> "none", calls |-> st.calls, pre |-> bots]
    /\ clsHooks' = [clsHooks EXCEPT ![c] = NewHookLists]
    /\ instHooks' = Append(instHooks, EmptyDict)
    /\ added' = Append(added, NewHookLists)
    /\ UNCHANGED <<classDict, sheds, entityVars, hk, assetVars, dec>>

\* The scan when the client's add_* call for the attribute at index k raises:
\* __new__ has no handler, so the exception leaves it there. For a command,
\* val.scale, wrap_partial and new_cls._commands.append(val) precede the call;
\* for a listener, wrap_partial precedes it and listeners.append follows it.
ScanAttrRaises(o, inst, st) ==
    IF IsCommand(o) THEN
        [st EXCEPT
            !.objs = [@ EXCEPT ![o] = wrap_partial([@ EXCEPT !.scale = inst], inst)],
            !.commands = Append(@, o),
            !.calls = Append(@, IF IsInteractionCommand(o)
                                THEN <<"add_interaction", o>>
                                ELSE <<"add_message_command", o>>)]
    ELSE
        [st EXCEPT
            !.objs = [@ EXCEPT ![o] = wrap_partial(@, inst)],
            !.calls = Append(@, <<"add_listener", o>>)]

RECURSIVE ScanDictUntil(_, _, _, _, _)
ScanDictUntil(c, i, k, inst, st) ==
    IF i = k THEN ScanAttrRaises(<<c, k>>, inst, st)
    ELSE ScanDictUntil(c, i + 1, k, inst, ScanAttr(<<c, i>>, inst, st))

\* Scale(bot) when the registration of the k-th declared attribute fails: the
\* instance exists (super().__new__ ran) but is never returned to the caller.
Scale_new_raises(c, b, k) ==
    /\ Len(instances) < MaxInstances
    /\ k \in 1..Len(classDict[c])
    /\ IsCommand(<<c, k>>) \/ IsListener(<<c, k>>)
    /\ LET inst == Len(instances) + 1
           registered == [bots[b] EXCEPT !.scales = DictSet(@, ClassName(c), [class |-> c])]
           st == ScanDictUntil(c, 1, k, inst,
                               [client |-> registered, objs |-> objState,
                                commands |-> <<>>, listeners |-> <<>>, calls |-> <<>>])
       IN /\ clsAttr' = [clsAttr EXCEPT ![c] =
                            [constructed |-> TRUE, bot |-> b, name |-> ClassName(c),
                             commands |-> st.commands, listeners |-> st.listeners]]
          /\ objState' = st.objs
          /\ bots' = [bots EXCEPT ![b] = st.client]
          /\ instances' = Append(instances, [cls |-> c, bot |-> b])
          /\ last' = [op |-> "new", inst |-> inst, cls |-> c, bot |-> b,
                      raised |-> "RegistrationError", calls |-> st.calls, pre |-> bots]
    /\ clsHooks' = [clsHooks EXCEPT ![c] = NewHookLists]
    /\ instHooks' = Append(instHooks, EmptyDict)
    /\ added' = Append(added, NewHookLists)
    /\ UNCHANGED <<classDict, sheds, entityVars, hk, assetVars, dec>>

\* -------------------------------------------------------------- Scale.shed
\* Attribute lookup on an instance: __new__ sets nothing on the instance, so
\* every name resolves on the class; the names the class carries are the ones
\* __new__ assigned. `__name__` is an attribute of the class object only.
ClassAttrNames ==
    {"bot", "_Scale__name", "scale_checks", "scale_prerun", "scale_postrun",
     "listeners", "description", "_commands", "_listeners"}
InstanceHasAttr(attr) == attr \in ClassAttrNames

\* One iteration of `for cmd in self._commands`; st = [client, raised].
ShedCommand(o, st) ==
    LET afterInteraction ==
            IF IsInteractionCommand(o)
               /\ DictHas(st.client.interactions, Desc(o).scope)
               /\ DOMAIN st.client.interactions[Desc(o).scope] # {}
               /\ DictHas(st.client.interactions[Desc(o).scope], Desc(o).name)
            THEN [st EXCEPT !.client.interactions[Desc(o).scope] = DictPop(@, Desc(o).name)]
            ELSE st
    IN IF IsMessageCommand(o) THEN
           IF ~DictHas(afterInteraction.client.commands, Desc(o).name)
           THEN [afterInteraction EXCEPT !.raised = "KeyError"]
           ELSE [afterInteraction EXCEPT !.client.commands = DictPop(@, Desc(o).name)]
       ELSE afterInteraction

RECURSIVE ShedLoop(_, _, _)
ShedLoop(cmds, i, st) ==
    IF i > Len(cmds) \/ st.raised # "none" THEN st
    ELSE ShedLoop(cmds, i + 1, ShedCommand(cmds[i], st))

\* self.bot.scales.pop(self.__name__)
ShedRegistry(st, c) ==
    IF st.raised # "none" THEN st
    ELSE IF ~InstanceHasAttr("__name__") THEN [st EXCEPT !.raised = "AttributeError"]
    ELSE IF ~DictHas(st.client.scales, ClassName(c)) THEN [st EXCEPT !.raised = "KeyError"]
    ELSE [st EXCEPT !.client.scales = DictPop(@, ClassName(c))]

Scale_shed(inst) ==
    /\ sheds < MaxSheds
    /\ inst \in 1..Len(instances)
    /\ LET c == instances[inst].cls
           b == clsAttr[c].bot            \* self.bot resolves to cls.bot
           st == ShedRegistry(ShedLoop(clsAttr[c].commands, 1,
                                       [client |-> bots[b], raised |-> "none"]), c)
       IN /\ bots' = [bots EXCEPT ![b] = st.client]
          /\ last' = [op |-> "shed", inst |-> inst, cls |-> c, bot |-> b,
                      raised |-> st.raised, calls |-> <<>>, pre |-> bots]
    /\ sheds' = sheds + 1
    /\ UNCHANGED <<classDict, clsAttr, objState, instances, entityVars,
                   hookVars, assetVars, dec>>

\* ------------------------------------------------------ Scale.add_scale_*
\* What a caller can pass: two coroutine functions, a plain function.
Callables == {"co1", "co2", "fn"}
iscoroutinefunction(f) == f \in {"co1", "co2"}

\* self.<list> : the instance attribute when it was set, else the class one.
HookList(inst, list) ==
    IF DictHas(instHooks[inst], list) THEN instHooks[inst][list]
    ELSE clsHooks[instances[inst].cls][list]
HookListsOf(inst) == [l \in HookLists |-> HookList(inst, l)]

\* The list each method is documented to add to.
OwnList(method) ==
    CASE method = "add_scale_check" -> "scale_checks"
      [] method = "add_scale_prerun" -> "scale_prerun"
      [] method = "add_scale_postrun" -> "scale_postrun"

HooksAccepted ==
    LET RECURSIVE Total(_)
        Total(i) == IF i = 0 THEN 0
                    ELSE Total(i - 1) + Len(added[i].scale_checks)
                         + Len(added[i].scale_prerun) + Len(added[i].scale_postrun)
    IN Total(Len(added))

\* Mutant of HookAdd: the iscoroutinefunction test is lost.
HookAdd_Unchecked(inst, method, list, coroutine) ==
    /\ HooksAccepted < MaxHooks
    /\ inst \in 1..Len(instances)
    /\ LET withDefault == IF HookList(inst, list) = <<>>
                          THEN DictSet(instHooks[inst], list, <<>>)
                          ELSE instHooks[inst]
       IN IF DictHas(withDefault, list)
          THEN /\ instHooks' = [instHooks EXCEPT ![inst] =
                                   DictSet(withDefault, list,
                                           Append(withDefault[list], coroutine))]
               /\ UNCHANGED clsHooks
          ELSE /\ clsHooks' = [clsHooks EXCEPT ![instances[inst].cls][list] =
                                   Append(@, coroutine)]
               /\ UNCHANGED instHooks
    /\ added' = [added EXCEPT ![inst][OwnList(method)] = Append(@, coroutine)]
    /\ hk' = [op |-> method, inst |-> inst, arg |-> coroutine, raised |-> "none",
              pre |-> HookListsOf(inst)]
    /\ UNCHANGED <<scaleVars, entityVars, assetVars, dec>>

\* The body shared by the three methods:
\*     if not asyncio.iscoroutinefunction(coroutine): raise TypeError(...)
\*     if not self.<list>: self.<list> = []
\*     self.<list>.append(coroutine)
HookAdd(inst, method, list, coroutine) ==
    /\ HooksAccepted < MaxHooks
    /\ inst \in 1..Len(instances)
    /\ IF ~iscoroutinefunction(coroutine)
       THEN /\ hk' = [op |-> method, inst |-> inst, arg |-> coroutine,
                      raised |-> "TypeError", pre |-> HookListsOf(inst)]
            /\ UNCHANGED <<clsHooks, instHooks, added>>
       ELSE /\ LET withDefault == IF HookList(inst, list) = <<>>
                                  THEN DictSet(instHooks[inst], list, <<>>)
                                  ELSE instHooks[inst]
               IN IF DictHas(withDefault, list)
                  THEN /\ instHooks' = [instHooks EXCEPT ![inst] =
                                           DictSet(withDefault, list,
                                                   Append(withDefault[list], coroutine))]
                       /\ UNCHANGED clsHooks
                  ELSE /\ clsHooks' = [clsHooks EXCEPT ![instances[inst].cls][list] =
                                           Append(@, coroutine)]
                       /\ UNCHANGED instHooks
            /\ added' = [added EXCEPT ![inst][OwnList(method)] = Append(@, coroutine)]
            /\ hk' = [op |-> method, inst |-> inst, arg |-> coroutine,
                      raised |-> "none", pre |-> HookListsOf(inst)]
    /\ UNCHANGED <<scaleVars, entityVars, assetVars, dec>>

add_scale_check(inst, coroutine) ==
    HookAdd(inst, "add_scale_check", "scale_checks", coroutine)

\* Mutant of add_scale_prerun: the pre-run hook lands in the check list.
add_scale_prerun_IntoChecks(inst, coroutine) ==
    HookAdd(inst, "add_scale_prerun", "scale_checks", coroutine)

add_scale_prerun(inst, coroutine) ==
    HookAdd(inst, "add_scale_prerun", "scale_prerun", coroutine)

add_scale_postrun(inst, coroutine) ==
    HookAdd(inst, "add_scale_postrun", "scale_postrun", coroutine)

\* ================================================================ entities
\* Python's None and dis_snek.const.MISSING, and the values a caller can give.
None == "None"
MISSING == "MISSING"
NoneId == 0                            \* an identifier field left at default=None
Ids == {1}
Kinds == {"user", "guild"}

\* dis_snek.utils.serializer.dict_filter_none, a helper outside the modelled
\* files: as its name and its use with None defaults say, it drops the
\* entries whose value is None.
dict_filter_none(d) == [k \in {j \in DOMAIN d : d[j] # None} |-> d[k]]

\* ------------------------------------------------------- CacheProxy (spec)
\* dis_snek.utils.proxy.CacheProxy, a helper outside the modelled files: it
\* follows the specification of the deferred reference resolver: the resident
\* entity itself, else a deferred handle that looks the id up when forced.
CacheProxy(id, kind) ==
    IF id \in cache[kind]
    THEN [tag |-> "entity", kind |-> kind, id |-> id]
    ELSE [tag |-> "deferred", kind |-> kind, id |-> id]

PyNone == [tag |-> "None", kind |-> "-", id |-> NoneId]

\* --------------------------------------------------------------- accessors
\* Mutant of CustomEmoji_creator: the guild reference is handed out instead.
CustomEmoji_creator_AsGuild ==
    IF ent.emoji.creator_id # NoneId
    THEN CacheProxy(ent.emoji.guild_id, "guild") ELSE PyNone

CustomEmoji_creator ==
    IF ent.emoji.creator_id # NoneId
    THEN CacheProxy(ent.emoji.creator_id, "user") ELSE PyNone

CustomEmoji_guild == CacheProxy(ent.emoji.guild_id, "guild")

Sticker_user ==
    IF ent.sticker.user_id # NoneId
    THEN CacheProxy(ent.sticker.user_id, "user") ELSE PyNone

Sticker_guild ==
    IF ent.sticker.guild_id # NoneId
    THEN CacheProxy(ent.sticker.guild_id, "guild") ELSE PyNone

Accessors == {"CustomEmoji.creator", "CustomEmoji.guild", "Sticker.user", "Sticker.guild"}
AccessorValue(a) ==
    CASE a = "CustomEmoji.creator" -> CustomEmoji_creator
      [] a = "CustomEmoji.guild" -> CustomEmoji_guild
      [] a = "Sticker.user" -> Sticker_user
      [] OTHER -> Sticker_guild

\* Reading a property: no lookup is made by the read itself.
ReadAccessor(a) ==
    /\ acc' = [op |-> a, ret |-> AccessorValue(a), lookups |-> 0,
               forced |-> FALSE, residentAtRead |-> cache]
    /\ UNCHANGED <<scaleVars, hookVars, assetVars, dec, ent, cache, remote, tasks, ncalls, inv, fin>>

\* Awaiting the deferred handle: one call of cache.get_<kind>(id), which
\* returns the entity (placing it in the cache) or reports NotFound.
ForceHandle ==
    /\ acc.ret.tag = "deferred"
    /\ ~acc.forced
    /\ LET found == acc.ret.id \in remote[acc.ret.kind]
       IN /\ acc' = [acc EXCEPT !.lookups = @ + 1, !.forced = TRUE,
                                !.ret.tag = IF found THEN "entity" ELSE "NotFound"]
          /\ cache' = IF found
                      THEN [cache EXCEPT ![acc.ret.kind] = @ \cup {acc.ret.id}]
                      ELSE cache
    /\ UNCHANGED <<scaleVars, hookVars, assetVars, dec, ent, remote, tasks, ncalls, inv, fin>>

\* ------------------------------------------------------------ edit, delete
NameValues == {"n1"}
RoleValues == {"[r1]"}
TextValues == {"t1"}

NoInvocation == [op |-> "none", args |-> EmptyDict, raised |-> "none", issued |-> <<>>]

\* update_from_dict (DictSerializationMixin, outside the modelled files): the
\* returned state is applied onto the entity, key by key.
update_from_dict(entity, data) ==
    [f \in DOMAIN entity |-> IF f \in DOMAIN data THEN data[f] ELSE entity[f]]

\* The state the HTTP collaborator returns for a modify call: the fields the
\* payload names, with the values it gave them (a MISSING value names nothing).
ResponseTo(call) ==
    [k \in {j \in DOMAIN call.payload : call.payload[j] # MISSING} |-> call.payload[k]]

\* Mutant of CustomEmoji_edit_payload: the dict is sent unfiltered.
CustomEmoji_edit_payload_Unfiltered(name, roles) ==
    [name |-> name, roles |-> roles]

CustomEmoji_edit_payload(name, roles) ==
    dict_filter_none([name |-> name, roles |-> roles])

\* Mutant of CustomEmoji_edit: the entity is updated from the payload before
\* the call is awaited.
CustomEmoji_edit_EagerUpdate(name, roles) ==
    /\ ncalls < MaxCalls
    /\ Len(tasks) < MaxTasks
    /\ LET call == [method |-> "modify_guild_emoji",
                    payload |-> CustomEmoji_edit_payload(name, roles),
                    guild_id |-> ent.emoji.guild_id, id |-> ent.emoji.id]
       IN /\ inv' = [op |-> "CustomEmoji.edit", args |-> [name |-> name, roles |-> roles],
                     raised |-> "none", issued |-> <<call>>]
          /\ tasks' = Append(tasks, [op |-> "CustomEmoji.edit", kind |-> "emoji", call |-> call])
          /\ ent' = [ent EXCEPT !.emoji = update_from_dict(@, call.payload)]
    /\ ncalls' = ncalls + 1
    /\ UNCHANGED <<scaleVars, hookVars, assetVars, dec, cache, remote, fin, acc>>

\* CustomEmoji.edit up to its await: the outbound payload and the HTTP call.
CustomEmoji_edit(name, roles) ==
    /\ ncalls < MaxCalls
    /\ Len(tasks) < MaxTasks
    /\ LET call == [method |-> "modify_guild_emoji",
                    payload |-> CustomEmoji_edit_payload(name, roles),
                    guild_id |-> ent.emoji.guild_id, id |-> ent.emoji.id]
       IN /\ inv' = [op |-> "CustomEmoji.edit", args |-> [name |-> name, roles |-> roles],
                     raised |-> "none", issued |-> <<call>>]
          /\ tasks' = Append(tasks, [op |-> "CustomEmoji.edit", kind |-> "emoji", call |-> call])
    /\ ncalls' = ncalls + 1
    /\ UNCHANGED <<scaleVars, hookVars, assetVars, dec, ent, cache, remote, fin, acc>>

\* Sticker.edit up to its await.
Sticker_edit_payload(name, description, tags) ==
    dict_filter_none([name |-> name, description |-> description, tags |-> tags])

Sticker_edit(name, description, tags) ==
    /\ ncalls < MaxCalls
    /\ Len(tasks) < MaxTasks
    /\ LET args == [name |-> name, description |-> description, tags |-> tags]
           call == [method |-> "modify_guild_sticker",
                    payload |-> Sticker_edit_payload(name, description, tags),
                    guild_id |-> ent.sticker.guild_id, id |-> ent.sticker.id]
       IN IF ent.sticker.guild_id = NoneId
          THEN /\ inv' = [op |-> "Sticker.edit", args |-> args,
                          raised |-> "ValueError", issued |-> <<>>]
               /\ UNCHANGED tasks
          ELSE /\ inv' = [op |-> "Sticker.edit", args |-> args,
                          raised |-> "none", issued |-> <<call>>]
               /\ tasks' = Append(tasks, [op |-> "Sticker.edit", kind |-> "sticker", call |-> call])
    /\ ncalls' = ncalls + 1
    /\ UNCHANGED <<scaleVars, hookVars, assetVars, dec, ent, cache, remote, fin, acc>>

\* Mutant of DeleteEntity: the guild-id guard is missing.
DeleteEntity_NoGuard(op, kind, method) ==
    /\ ncalls < MaxCalls
    /\ Len(tasks) < MaxTasks
    /\ LET call == [method |-> method, payload |-> EmptyDict,
                    guild_id |-> ent[kind].guild_id, id |-> ent[kind].id]
       IN /\ inv' = [op |-> op, args |-> EmptyDict, raised |-> "none", issued |-> <<call>>]
          /\ tasks' = Append(tasks, [op |-> op, kind |-> kind, call |-> call])
    /\ ncalls' = ncalls + 1
    /\ UNCHANGED <<scaleVars, hookVars, assetVars, dec, ent, cache, remote, fin, acc>>

\* CustomEmoji.delete and Sticker.delete up to their await.
DeleteEntity(op, kind, method) ==
    /\ ncalls < MaxCalls
    /\ Len(tasks) < MaxTasks
    /\ LET call == [method |-> method, payload |-> EmptyDict,
                    guild_id |-> ent[kind].guild_id, id |-> ent[kind].id]
       IN IF ent[kind].guild_id = NoneId
          THEN /\ inv' = [op |-> op, args |-> EmptyDict,
                          raised |-> "ValueError", issued |-> <<>>]
               /\ UNCHANGED tasks
          ELSE /\ inv' = [op |-> op, args |-> EmptyDict,
                          raised |-> "none", issued |-> <<call>>]
               /\ tasks' = Append(tasks, [op |-> op, kind |-> kind, call |-> call])
    /\ ncalls' = ncalls + 1
    /\ UNCHANGED <<scaleVars, hookVars, assetVars, dec, ent, cache, remote, fin, acc>>

CustomEmoji_delete == DeleteEntity("CustomEmoji.delete", "emoji", "delete_guild_emoji")
Sticker_delete == DeleteEntity("Sticker.delete", "sticker", "delete_guild_sticker")

RemoveAt(s, i) == [j \in 1..(Len(s) - 1) |-> IF j < i THEN s[j] ELSE s[j + 1]]

\* The awaited call returns: an edit applies the returned state and returns
\* self; a delete just returns.
TaskReturns(i) ==
    /\ i \in 1..Len(tasks)
    /\ LET t == tasks[i]
       IN /\ ent' = IF t.op \in {"CustomEmoji.edit", "Sticker.edit"}
                    THEN [ent EXCEPT ![t.kind] = update_from_dict(@, ResponseTo(t.call))]
                    ELSE ent
          /\ fin' = [op |-> t.op, result |-> "ok", call |-> t.call]
    /\ tasks' = RemoveAt(tasks, i)
    /\ UNCHANGED <<scaleVars, hookVars, assetVars, dec, cache, remote, ncalls, inv, acc>>

\* The awaited call raises (HTTP failure) or the coroutine is cancelled at
\* its await: the exception leaves edit/delete at that line.
TaskRaises(i, exc) ==
    /\ i \in 1..Len(tasks)
    /\ fin' = [op |-> tasks[i].op, result |-> exc, call |-> tasks[i].call]
    /\ tasks' = RemoveAt(tasks, i)
    /\ UNCHANGED <<scaleVars, hookVars, assetVars, dec, ent, cache, remote, ncalls, inv, acc>>

\* ================================================================== Asset
\* A Python str is the sequence of its pieces (single characters for a hash);
\* an Optional[str] or Optional[int] argument says whether it is None.
BASE == "https://cdn.discordapp.com"
NoStr == [none |-> TRUE, str |-> <<>>]
Str(chars) == [none |-> FALSE, str |-> chars]
NoInt == [none |-> TRUE, n |-> 0]
IntArg(n) == [none |-> FALSE, n |-> n]

\* The hashes under test: animated, static, the prefix inside, a lone "a", "".
Hashes ==
    { <<"a", "_", "1", "2">>, <<"1", "2">>, <<"b", "a", "_">>, <<"a">>, <<>> }
\* A path template "icons/{}.png": what stands before and after the {}.
IconPath == [before |-> "icons/", after |-> ".png"]

\* url = f"{cls.BASE}/{path.format(asset_hash)}" ; cls(client, url, hash)
from_path_hash(path, asset_hash) ==
    [url |-> <<BASE, "/", path.before>> \o asset_hash \o <<path.after>>,
     hash |-> Str(asset_hash)]
\* Asset(client, url) : hash left at its default None.
AssetUrl == <<BASE, "/", "icons/", "x", ".png">>
Assets == {from_path_hash(IconPath, h) : h \in Hashes}
              \cup {[url |-> AssetUrl, hash |-> NoStr]}

\* str.startswith
startswith(string, prefix) ==
    /\ Len(string) >= Len(prefix)
    /\ SubSeq(string, 1, Len(prefix)) = prefix

\* Mutant of Asset_animated: the prefix is looked for anywhere in the hash.
Asset_animated_Anywhere(a) ==
    IF a.hash.none \/ a.hash.str = <<>> THEN "None"
    ELSE IF \E i \in 1..Len(a.hash.str) :
                startswith(SubSeq(a.hash.str, i, Len(a.hash.str)), <<"a", "_">>)
         THEN "True" ELSE "False"

\* Asset.animated: None for a missing (or empty) hash, else hash.startswith("a_")
Asset_animated(a) ==
    IF a.hash.none \/ a.hash.str = <<>> THEN "None"
    ELSE IF startswith(a.hash.str, <<"a", "_">>) THEN "True" ELSE "False"

\* x & y on Python's unbounded two's-complement integers.
RECURSIVE BitAnd(_, _)
BitAnd(x, y) ==
    IF x = 0 \/ y = 0 THEN 0
    ELSE IF x = -1 THEN y
    ELSE IF y = -1 THEN x
    ELSE (x % 2) * (y % 2) + 2 * BitAnd(x \div 2, y \div 2)

Sizes == (-MaxSize)..MaxSize
SizeArgs == {NoInt} \cup {IntArg(n) : n \in Sizes}
ExtensionArgs == {NoStr, Str(<<>>), Str(<<".webp">>)}

NoRequest ==
    [op |-> "none", extension |-> NoStr, size |-> NoInt, raised |-> "none",
     requested |-> <<>>, written |-> FALSE]

\* Asset.get(extension, size); Asset.save is get followed by the file write.
Asset_get(op, extension, size) ==
    LET ext == IF extension.none \/ extension.str = <<>>       \* if not extension:
               THEN IF Asset_animated(asset) = "True" THEN <<".gif">> ELSE <<".png">>
               ELSE extension.str
        sized == ~size.none /\ size.n # 0                      \* if size:
        raises == sized /\ ( \/ ~(size.n # 0 /\ BitAnd(size.n, size.n - 1) = 0)
                             \/ ~(16 <= size.n /\ size.n <= 4096) )
        url == IF sized THEN asset.url \o <<"?size=", ToString(size.n)>> ELSE asset.url
    IN /\ req' = [op |-> op, extension |-> extension, size |-> size,
                  raised |-> IF raises THEN "ValueError" ELSE "none",
                  requested |-> IF raises THEN <<>> ELSE <<url \o ext>>,
                  written |-> (op = "save" /\ ~raises)]
       /\ UNCHANGED <<scaleVars, entityVars, hookVars, asset, dec>>
\* ================================================== CustomEmoji.from_dict
\* Identifiers as they come over the wire (decimal strings) and the payloads
\* under test: the `user` key absent, null or a user object; the `roles` key
\* absent or a list of role ids.
WireIds == {"1", "2"}
UserPayloads ==
    {[kind |-> "absent", id |-> "-"], [kind |-> "null", id |-> "-"]}
        \cup {[kind |-> "dict", id |-> w] : w \in WireIds}
RolesPayloads ==
    {[present |-> FALSE, list |-> <<>>]}
        \cup {[present |-> TRUE, list |-> l] : l \in SeqsUpTo(WireIds, MaxRoles)}
EmojiPayloads ==
    {[name |-> n, user |-> u, roles |-> r] :
        n \in NameValues, u \in UserPayloads, r \in RolesPayloads}

\* to_snowflake (dis_snek.models.snowflake): the integer a decimal string denotes.
to_snowflake(w) == CHOOSE n \in 1..Cardinality(WireIds) : ToString(n) = w
\* list_converter(to_snowflake): the converter applied to each entry, in order.
list_converter(l) == [i \in 1..Len(l) |-> to_snowflake(l[i])]

\* cache.place_user_data(payload) -> User: inserts or updates the user and
\* returns the stored entity.
place_user_data(users, payload) ==
    [users |-> users \cup {to_snowflake(payload.id)},
     entity |-> [id |-> to_snowflake(payload.id)]]

\* Mutant of CustomEmoji_process_dict: the creator id is read off the payload
\* and the cache is never asked to store the user.
CustomEmoji_process_dict_NoCache(data, users) ==
    [creator_id |-> IF data.user.kind = "dict" THEN to_snowflake(data.user.id) ELSE NoneId,
     role_ids |-> data.roles, name |-> data.name,
     users |-> users, placed |-> <<>>]

\* CustomEmoji._process_dict: data.pop("user", None); creator_id from the
\* stored user if there is a sub-payload, else None; roles renamed to role_ids.
\* Returns the processed data with the cache's users and the insertions made.
CustomEmoji_process_dict(data, users) ==
    LET creator_dict == data.user
        truthy == creator_dict.kind = "dict"
        stored == place_user_data(users, creator_dict)
    IN [creator_id |-> IF truthy THEN stored.entity.id ELSE NoneId,
        role_ids |-> data.roles, name |-> data.name,
        users |-> IF truthy THEN stored.users ELSE users,
        placed |-> IF truthy THEN <<creator_dict>> ELSE <<>>]

NoDecode ==
    [op |-> "none", n |-> 0, payload |-> [name |-> "n0", user |-> [kind |-> "absent", id |-> "-"],
                                          roles |-> [present |-> FALSE, list |-> <<>>]],
     placed |-> <<>>, role_ids |-> <<>>, usersBefore |-> {}]

\* CustomEmoji.from_dict: _process_dict, then the attrs constructor with its
\* converters (role_ids: list_converter(to_snowflake), default an empty list).
CustomEmoji_from_dict(data) ==
    /\ dec.n < MaxDecodes
    /\ LET p == CustomEmoji_process_dict(data, cache.user)
       IN /\ ent' = [ent EXCEPT !.emoji.creator_id = p.creator_id,
                                !.emoji.name = p.name]
          /\ cache' = [cache EXCEPT !.user = p.users]
          /\ dec' = [op |-> "from_dict", n |-> dec.n + 1, payload |-> data,
                     placed |-> p.placed,
                     role_ids |-> IF p.role_ids.present
                                  THEN list_converter(p.role_ids.list) ELSE <<>>,
                     usersBefore |-> cache.user]
    /\ UNCHANGED <<scaleVars, hookVars, assetVars, remote, tasks, ncalls, inv, fin, acc>>

\* =================================================================== specs
\* No class was constructed, no hook was added.
NoHookCall ==
    [op |-> "none", inst |-> 0, arg |-> "none", raised |-> "none", pre |-> NewHookLists]

HooksIdle ==
    /\ clsHooks = [c \in ScaleClasses |-> NewHookLists]
    /\ instHooks = <<>>
    /\ added = <<>>
    /\ hk = NoHookCall

ScaleInit ==
    /\ classDict \in {d \in [ScaleClasses -> SeqsUpTo(Descriptors, MaxAttrs)] :
                         \A c \in ScaleClasses : d[c] \in Declarations(c)}
    /\ clsAttr = [c \in ScaleClasses |->
                    [constructed |-> FALSE, bot |-> "bot1", name |-> c,
                     commands |-> <<>>, listeners |-> <<>>]]
    /\ objState = [o \in UNION {ObjectsOf(c) : c \in ScaleClasses} |->
                    [scale |-> 0, bound |-> <<>>]]
    /\ instances = <<>>
    /\ bots = [b \in Bots |-> NewClient]
    /\ sheds = 0
    /\ last = [op |-> "init", inst |-> 0, cls |-> "A", bot |-> "bot1",
               raised |-> "none", calls |-> <<>>, pre |-> [b \in Bots |-> NewClient]]
    /\ HooksIdle

\* No Scale class declares anything: the state of the Scale part while the
\* entities are exercised.
ScaleIdle ==
    /\ classDict = [c \in ScaleClasses |-> <<>>]
    /\ clsAttr = [c \in ScaleClasses |->
                    [constructed |-> FALSE, bot |-> "bot1", name |-> c,
                     commands |-> <<>>, listeners |-> <<>>]]
    /\ objState = [o \in {} |-> [scale |-> 0, bound |-> <<>>]]
    /\ instances = <<>>
    /\ bots = [b \in Bots |-> NewClient]
    /\ sheds = 0
    /\ last = [op |-> "init", inst |-> 0, cls |-> "A", bot |-> "bot1",
               raised |-> "none", calls |-> <<>>, pre |-> [b \in Bots |-> NewClient]]
    /\ HooksIdle

\* An emoji and a sticker as from_dict builds them: each reference field holds
\* an id or is left at None.
Entities ==
    {[emoji |-> [id |-> "emoji1", name |-> "n0", roles |-> "[]",
                 guild_id |-> eg, creator_id |-> ec],
      sticker |-> [id |-> "sticker1", name |-> "n0", description |-> None,
                   tags |-> "t0", guild_id |-> sg, user_id |-> su]] :
         eg \in Ids \cup {NoneId}, ec \in Ids \cup {NoneId},
         sg \in Ids \cup {NoneId}, su \in Ids \cup {NoneId}}

NoCompletion ==
    [op |-> "none", result |-> "none",
     call |-> [method |-> "none", payload |-> EmptyDict, guild_id |-> NoneId, id |-> "none"]]

NoRead ==
    [op |-> "none", ret |-> PyNone, lookups |-> 0, forced |-> FALSE,
     residentAtRead |-> [k \in Kinds |-> {}]]

\* Nothing is in flight and nothing was called yet.
CallsIdle ==
    /\ tasks = <<>>
    /\ ncalls = 0
    /\ inv = NoInvocation
    /\ fin = NoCompletion
    /\ acc = NoRead

\* An asset nobody requested, and no payload decoded.
AssetIdle ==
    /\ asset = [url |-> AssetUrl, hash |-> NoStr]
    /\ req = NoRequest

DecodeIdle == dec = NoDecode

EntityIdle ==
    /\ ent \in {e \in Entities : \A k \in {"emoji", "sticker"} : e[k].guild_id = NoneId
                                    /\ e.emoji.creator_id = NoneId /\ e.sticker.user_id = NoneId}
    /\ remote = [k \in Kinds |-> {}]
    /\ cache = [k \in Kinds |-> {}]
    /\ CallsIdle
    /\ AssetIdle
    /\ DecodeIdle

\* Any entity, its references absent remotely, remote only, or cache-resident.
ReferenceStart ==
    /\ ent \in Entities
    /\ remote \in [Kinds -> SUBSET Ids]
    /\ cache \in {c \in [Kinds -> SUBSET Ids] : \A k \in Kinds : c[k] \subseteq remote[k]}
    /\ CallsIdle
    /\ AssetIdle
    /\ DecodeIdle

\* An emoji and a sticker with or without their guild id.
EntityStart ==
    /\ ent \in {e \in Entities : e.emoji.creator_id = NoneId /\ e.sticker.user_id = NoneId}
    /\ remote = [k \in Kinds |-> Ids]
    /\ cache = [k \in Kinds |-> {}]
    /\ CallsIdle
    /\ AssetIdle
    /\ DecodeIdle

Init == ScaleInit /\ EntityIdle

Next ==
    \/ \E c \in ScaleClasses, b \in Bots : Scale_new(c, b)
    \/ \E inst \in 1..MaxInstances : Scale_shed(inst)

\* Scale construction and shedding.
Spec == Init /\ [][Next]_vars

FaultNext ==
    \/ \E c \in ScaleClasses, b \in Bots : Scale_new(c, b)
    \/ \E c \in ScaleClasses, b \in Bots, k \in 1..MaxAttrs : Scale_new_raises(c, b, k)

\* The hook lists do not depend on the client: one client is enough here.
HookNext ==
    \/ \E c \in ScaleClasses : Scale_new(c, "bot1")
    \/ \E inst \in 1..MaxInstances, f \in Callables : add_scale_check(inst, f)
    \/ \E inst \in 1..MaxInstances, f \in Callables : add_scale_prerun(inst, f)
    \/ \E inst \in 1..MaxInstances, f \in Callables : add_scale_postrun(inst, f)

\* The hook lists of constructed scales.
HookInit == ScaleIdle /\ EntityIdle

HookSpec == HookInit /\ [][HookNext]_vars

\* Any asset, nothing requested yet.
AssetStart ==
    /\ ent \in {e \in Entities : \A k \in {"emoji", "sticker"} : e[k].guild_id = NoneId
                                    /\ e.emoji.creator_id = NoneId /\ e.sticker.user_id = NoneId}
    /\ remote = [k \in Kinds |-> {}]
    /\ cache = [k \in Kinds |-> {}]
    /\ CallsIdle
    /\ DecodeIdle
    /\ asset \in Assets
    /\ req = NoRequest

\* An Asset has no field that get or save assigns, so calls are independent of
\* each other: a behaviour makes one.
AssetNext ==
    /\ req.op = "none"
    /\ \E op \in {"get", "save"}, extension \in ExtensionArgs, size \in SizeArgs :
          Asset_get(op, extension, size)

AssetInit == ScaleIdle /\ AssetStart

\* Asset.get and Asset.save against the CDN collaborator.
AssetSpec == AssetInit /\ [][AssetNext]_vars

\* An emoji not decoded yet; the cache holds no user.
DecodeStart ==
    /\ ent \in {e \in Entities : \A k \in {"emoji", "sticker"} : e[k].guild_id = NoneId
                                    /\ e.emoji.creator_id = NoneId /\ e.sticker.user_id = NoneId}
    /\ remote = [k \in Kinds |-> {}]
    /\ cache = [k \in Kinds |-> {}]
    /\ CallsIdle
    /\ AssetIdle
    /\ dec = NoDecode

DecodeNext == \E data \in EmojiPayloads : CustomEmoji_from_dict(data)

DecodeInit == ScaleIdle /\ DecodeStart

\* CustomEmoji.from_dict against the cache collaborator.
DecodeSpec == DecodeInit /\ [][DecodeNext]_vars

\* Scale construction against a client whose add_* calls can fail.
FaultSpec == Init /\ [][FaultNext]_vars

ReferenceNext ==
    \/ \E a \in Accessors : ReadAccessor(a)
    \/ ForceHandle

\* The reference accessors against the cache.
ReferenceInit == ScaleIdle /\ ReferenceStart

ReferenceSpec == ReferenceInit /\ [][ReferenceNext]_vars

EntityNext ==
    \/ \E name \in NameValues \cup {None}, roles \in RoleValues \cup {None} :
          CustomEmoji_edit(name, roles)
    \/ \E name \in NameValues \cup {MISSING}, description \in TextValues \cup {MISSING, None},
          tags \in TextValues \cup {MISSING} :
          Sticker_edit(name, description, tags)
    \/ CustomEmoji_delete
    \/ Sticker_delete
    \/ \E i \in 1..MaxTasks : TaskReturns(i)
    \/ \E i \in 1..MaxTasks, exc \in {"HTTPError", "CancelledError"} : TaskRaises(i, exc)

\* edit and delete against the HTTP collaborator.
EntityInit == ScaleIdle /\ EntityStart

EntitySpec == EntityInit /\ [][EntityNext]_vars

\* ================================================================== claims
RegisteredKinds == {"InteractionCommand", "MessageCommand", "Listener"}
MethodFor(kind) ==
    CASE kind = "InteractionCommand" -> "add_interaction"
      [] kind = "MessageCommand" -> "add_message_command"
      [] OTHER -> "add_listener"
CallsFor(o) == {k \in 1..Len(last.calls) : last.calls[k][2] = o}

\* The client a Scale instance was constructed with, and whether a command of
\* its class is held in a client's tables under the command's key.
ConstructedWith(inst) == instances[inst].bot
HeldIn(client, o) ==
    IF IsMessageCommand(o) THEN DictHas(client.commands, Desc(o).name)
    ELSE /\ DictHas(client.interactions, Desc(o).scope)
         /\ DictHas(client.interactions[Desc(o).scope], Desc(o).name)
CommandsOf(c) == {o \in ObjectsOf(c) : IsCommand(o)}
ListenersOf(c) == {o \in ObjectsOf(c) : IsListener(o)}
InSeq(s, x) == \E k \in 1..Len(s) : s[k] = x

\* C1: constructing a Scale calls, on the client it was given, add_interaction
\* or add_message_command exactly once for each declared command (according to
\* its kind) and add_listener exactly once for each declared listener, makes no
\* call for any other attribute, and touches no other client.
C1_ConstructRegistersExactlyDeclared ==
    last.op = "new" =>
        /\ \A o \in ObjectsOf(last.cls) :
              Cardinality(CallsFor(o)) =
                  IF Desc(o).kind \in RegisteredKinds THEN 1 ELSE 0
        /\ \A k \in 1..Len(last.calls) :
              /\ last.calls[k][2] \in ObjectsOf(last.cls)
              /\ last.calls[k][1] = MethodFor(Desc(last.calls[k][2]).kind)
        /\ \A b \in Bots \ {last.bot} : bots[b] = last.pre[b]

\* C1 witness: a class declaring a command, a listener and nothing else was
\* constructed and made its two registrations.
C1_Witness ==
    /\ last.op = "new"
    /\ Len(last.calls) = 2
    /\ CommandsOf(last.cls) # {}
    /\ ListenersOf(last.cls) # {}

\* C2: after shed() on a constructed Scale, none of the commands of that scale
\* is still held in the tables of the client it registered them with.
C2_ShedRemovesEveryCommand ==
    last.op = "shed" =>
        \A o \in CommandsOf(last.cls) : ~HeldIn(bots[ConstructedWith(last.inst)], o)

\* C3: after shed() the client's scale registry holds no entry for the scale
\* (the key stored at construction is the key removed) and shed did not raise.
C3_ShedRemovesRegistryEntry ==
    last.op = "shed" =>
        /\ last.raised = "none"
        /\ ~DictHas(bots[ConstructedWith(last.inst)].scales, ClassName(last.cls))

\* C4: shed() removes exactly what construction registered, listeners included:
\* afterwards no listener of the scale is left in the client's listener
\* collection, and every entry of another scale is still where it was.
C4_ShedRemovesExactlyRegistered ==
    last.op = "shed" =>
        /\ \A o \in ListenersOf(last.cls) :
              ~InSeq(bots[ConstructedWith(last.inst)].listeners, o)
        /\ \A b \in Bots :
              /\ \A n \in DOMAIN last.pre[b].commands :
                    last.pre[b].commands[n][1] # last.cls =>
                        /\ DictHas(bots[b].commands, n)
                        /\ bots[b].commands[n] = last.pre[b].commands[n]
              /\ \A s \in DOMAIN last.pre[b].interactions :
                    \A n \in DOMAIN last.pre[b].interactions[s] :
                        last.pre[b].interactions[s][n][1] # last.cls =>
                            /\ DictHas(bots[b].interactions[s], n)
                            /\ bots[b].interactions[s][n] = last.pre[b].interactions[s][n]
              /\ SelectSeq(bots[b].listeners, LAMBDA o : o[1] # last.cls)
                    = SelectSeq(last.pre[b].listeners, LAMBDA o : o[1] # last.cls)

\* C5: shed() tolerates entries that are already gone: when a command of the
\* scale is missing from the client's table, shed raises no lookup failure, and
\* a shed of a scale all of whose commands are gone leaves the tables as they were.
C5_ShedToleratesMissingEntries ==
    (last.op = "shed" /\ \E o \in CommandsOf(last.cls) : ~HeldIn(last.pre[last.bot], o)) =>
        /\ last.raised # "KeyError"
        /\ (\A o \in CommandsOf(last.cls) : ~HeldIn(last.pre[last.bot], o)) =>
              /\ bots[last.bot].commands = last.pre[last.bot].commands
              /\ bots[last.bot].interactions = last.pre[last.bot].interactions

\* The identifier an accessor reads and the kind of entity it refers to.
StoredId(a) ==
    CASE a = "CustomEmoji.creator" -> ent.emoji.creator_id
      [] a = "CustomEmoji.guild" -> ent.emoji.guild_id
      [] a = "Sticker.user" -> ent.sticker.user_id
      [] OTHER -> ent.sticker.guild_id
ReferredKind(a) == IF a \in {"CustomEmoji.creator", "Sticker.user"} THEN "user" ELSE "guild"

C7_EmojiEditPayloadOnlyPassed ==
    inv.op = "CustomEmoji.edit" =>
        /\ Len(inv.issued) = 1
        /\ inv.issued[1].method = "modify_guild_emoji"
        /\ DOMAIN inv.issued[1].payload = {k \in {"name", "roles"} : inv.args[k] # None}
        /\ \A k \in DOMAIN inv.issued[1].payload : inv.issued[1].payload[k] = inv.args[k]

\* C7 witness: edit was called with a name only.
C7_Witness ==
    /\ inv.op = "CustomEmoji.edit"
    /\ inv.args.name # None
    /\ inv.args.roles = None
    /\ DOMAIN inv.issued[1].payload = {"name"}

\* C8: the payload Sticker.edit sends to modify_guild_sticker has as keys
\* exactly the arguments among name, description and tags that were provided
\* (not left at the MISSING default), each with the value provided.
C8_StickerEditPayloadOnlyProvided ==
    (inv.op = "Sticker.edit" /\ inv.raised = "none") =>
        /\ Len(inv.issued) = 1
        /\ DOMAIN inv.issued[1].payload =
              {k \in {"name", "description", "tags"} : inv.args[k] # MISSING}
        /\ \A k \in DOMAIN inv.issued[1].payload : inv.issued[1].payload[k] = inv.args[k]

\* C9: an entity changes only in the step in which the awaited HTTP call of
\* one of its edits returns successfully; a step in which the call fails or is
\* cancelled hands the failure to the caller and changes no field.
C9_Step ==
    /\ ent' # ent =>
          /\ Len(tasks') < Len(tasks)
          /\ fin'.result = "ok"
          /\ fin'.op \in {"CustomEmoji.edit", "Sticker.edit"}
    /\ (Len(tasks') < Len(tasks) /\ fin'.result # "ok") =>
          /\ ent' = ent
          /\ fin'.result \in {"HTTPError", "CancelledError"}
C9_UpdateOnlyAfterSuccess == [][C9_Step]_vars

\* C9 witness: an emoji edit that would have renamed the emoji was cancelled
\* at its await, and the emoji still has its name.
C9_Witness ==
    /\ fin.op = "CustomEmoji.edit"
    /\ fin.result = "CancelledError"
    /\ "name" \in DOMAIN fin.call.payload
    /\ ent.emoji.name # fin.call.payload["name"]

\* C10: delete() on an emoji or sticker without a guild id raises and issues
\* no HTTP call; with a guild id it issues exactly one delete call carrying
\* that guild id and the entity's id.
C10_DeleteNeedsGuild ==
    /\ inv.op \in {"CustomEmoji.delete", "Sticker.delete"} =>
          LET kind == IF inv.op = "CustomEmoji.delete" THEN "emoji" ELSE "sticker"
          IN IF ent[kind].guild_id = NoneId
             THEN inv.raised = "ValueError" /\ inv.issued = <<>>
             ELSE /\ inv.raised = "none"
                  /\ Len(inv.issued) = 1
                  /\ inv.issued[1].method =
                        (IF kind = "emoji" THEN "delete_guild_emoji" ELSE "delete_guild_sticker")
                  /\ inv.issued[1].guild_id = ent[kind].guild_id
                  /\ inv.issued[1].id = ent[kind].id
    /\ \A i \in 1..Len(tasks) :
          tasks[i].op \in {"CustomEmoji.delete", "Sticker.delete"} =>
              tasks[i].call.guild_id # NoneId

\* C10 witness: a sticker without guild id was asked to delete itself.
C10_Witness ==
    /\ inv.op = "Sticker.delete"
    /\ inv.raised = "ValueError"
    /\ ent.sticker.guild_id = NoneId

\* The first positional argument the original callback of a declared command
\* or listener receives when it is invoked: the innermost functools.partial
\* binding. 0 when nothing was bound.
FirstArgument(o) == IF objState[o].bound = <<>> THEN 0 ELSE Head(objState[o].bound)

\* C13: every command and listener a Scale instance has just registered is
\* bound to that instance: invoked, its original callback receives the
\* constructed instance as its first argument, also when the class was
\* instantiated before.
C13_RegisteredBoundToInstance ==
    last.op = "new" =>
        \A o \in CommandsOf(last.cls) \cup ListenersOf(last.cls) :
            FirstArgument(o) = last.inst

\* C14: after a Scale is constructed, the client's scale registry holds, under
\* the scale's name, the instance that was constructed.
C14_RegistryHoldsInstance ==
    last.op = "new" =>
        /\ DictHas(bots[last.bot].scales, ClassName(last.cls))
        /\ LET entry == bots[last.bot].scales[ClassName(last.cls)]
           IN /\ "instance" \in DOMAIN entry
              /\ entry.instance = last.inst

\* C19: shed() on a scale removes no command another scale registered: every
\* command of another class held in a client's tables before the shed is held
\* under the same key afterwards.
C19_ShedKeepsOtherScalesCommands ==
    last.op = "shed" =>
        \A b \in Bots :
            /\ \A n \in DOMAIN last.pre[b].commands :
                  last.pre[b].commands[n][1] # last.cls =>
                      /\ DictHas(bots[b].commands, n)
                      /\ bots[b].commands[n][1] # last.cls
            /\ \A s \in DOMAIN last.pre[b].interactions :
                  \A n \in DOMAIN last.pre[b].interactions[s] :
                      last.pre[b].interactions[s][n][1] # last.cls =>
                          /\ DictHas(bots[b].interactions, s)
                          /\ DictHas(bots[b].interactions[s], n)

\* C20: instances of one Scale subclass are independent: whatever was
\* constructed since, the bot of every instance is the client it was
\* constructed with, and a shed() on an instance acts on that client.
C20_InstancesIndependent ==
    /\ \A inst \in 1..Len(instances) :
          clsAttr[instances[inst].cls].bot = ConstructedWith(inst)
    /\ last.op = "shed" => last.bot = ConstructedWith(last.inst)

\* C15: a construction whose scan fails at one registration leaves the client
\* as if nothing had been registered: its commands, interactions, listeners
\* and scale registry are what they were before the construction began.
C15_FailedConstructionLeavesNothing ==
    (last.op = "new" /\ last.raised # "none") => bots = last.pre

\* C16: an add_scale_* call with anything but a coroutine function raises
\* TypeError and leaves the three hook lists of the scale as they were; with a
\* coroutine function it raises nothing.
C16_HooksAcceptOnlyCoroutines ==
    hk.op # "none" =>
        IF iscoroutinefunction(hk.arg)
        THEN hk.raised = "none"
        ELSE /\ hk.raised = "TypeError"
             /\ HookListsOf(hk.inst) = hk.pre

\* C16 witness: a plain function was refused by a scale that already holds a hook.
C16_Witness ==
    /\ hk.raised = "TypeError"
    /\ \E l \in HookLists : hk.pre[l] # <<>>

\* C17: each hook list of every instance is the sequence of callables its own
\* add method accepted, in call order and with duplicates; the last call left
\* the two lists of the other methods as they were.
C17_HookListsAreTheirOwnAdds ==
    /\ \A inst \in 1..Len(instances) : HookListsOf(inst) = added[inst]
    /\ hk.op # "none" =>
          \A l \in HookLists \ {OwnList(hk.op)} : HookList(hk.inst, l) = hk.pre[l]

\* C17 witness: one list holds the same coroutine twice behind another one
\* while a second list of the same scale is not empty.
C17_Witness ==
    \E inst \in 1..Len(instances) :
        /\ HookList(inst, "scale_prerun") = <<"co1", "co1">>
        /\ HookList(inst, "scale_checks") = <<"co2">>
        /\ hk.raised = "none"

\* The powers of two, and the sizes the CDN accepts.
PowersOfTwo == {2^k : k \in 0..14}
ValidSize(n) == n \in PowersOfTwo /\ 16 <= n /\ n <= 4096

\* C11: whenever an integer size is supplied to get or save, the request is
\* issued if the size is a power of two in 16..4096, and otherwise the call
\* raises and no CDN request is issued.
C11_SizeValidated ==
    (req.op # "none" /\ ~req.size.none) =>
        IF ValidSize(req.size.n)
        THEN req.raised = "none" /\ Len(req.requested) = 1
        ELSE req.raised # "none" /\ req.requested = <<>>

\* The last piece of a requested URL and the pieces before it.
Last(u) == u[Len(u)]
Front(u) == SubSeq(u, 1, Len(u) - 1)

\* C12: the URL requested is the asset's url, then ?size=N when a valid size N
\* was given, then the extension: the caller's when one (not empty) was given,
\* else .gif exactly when the hash begins with a_ and .png in every other case.
C12_UrlComposition ==
    (req.op # "none" /\ req.raised = "none") =>
        LET u == req.requested[1]
            h == asset.hash
        IN /\ Len(req.requested) = 1
           /\ IF ~req.extension.none /\ req.extension.str # <<>>
              THEN <<Last(u)>> = req.extension.str
              ELSE Last(u) = IF ~h.none /\ Len(h.str) >= 2 /\ h.str[1] = "a" /\ h.str[2] = "_"
                             THEN ".gif" ELSE ".png"
           /\ IF ~req.size.none /\ ValidSize(req.size.n)
              THEN /\ Front(u) = asset.url \o <<"?size=", ToString(req.size.n)>>
              ELSE Front(u) = asset.url

\* C12 witness: an animated asset was requested with size 32 and no extension.
C12_Witness ==
    /\ req.op = "get"
    /\ req.raised = "none"
    /\ req.size = IntArg(32)
    /\ req.extension.none
    /\ Asset_animated(asset) = "True"
    /\ req.requested =
          <<(<<BASE, "/", "icons/", "a", "_", "1", "2", ".png", "?size=", "32", ".gif">>)>>

\* C18: from a payload with a user object, from_dict stores that user in the
\* cache with exactly one place_user_data call and the emoji's creator id is
\* the id of the stored user; from a payload without one it makes no insertion,
\* leaves the creator id None and the creator accessor returns None; a roles
\* list becomes the stored role ids, entry by entry in the same order.
C18_FromDictDecodesCreator ==
    dec.op = "from_dict" =>
        /\ IF dec.payload.user.kind = "dict"
           THEN /\ dec.placed = <<dec.payload.user>>
                /\ ent.emoji.creator_id \in cache.user
                /\ ToString(ent.emoji.creator_id) = dec.payload.user.id
                /\ cache.user = dec.usersBefore \cup {ent.emoji.creator_id}
           ELSE /\ dec.placed = <<>>
                /\ cache.user = dec.usersBefore
                /\ ent.emoji.creator_id = NoneId
                /\ CustomEmoji_creator = PyNone
        /\ dec.payload.roles.present =>
              /\ Len(dec.role_ids) = Len(dec.payload.roles.list)
              /\ \A i \in 1..Len(dec.role_ids) :
                    ToString(dec.role_ids[i]) = dec.payload.roles.list[i]

\* C18 witness: a payload with a user object and two different roles was
\* decoded after one without a user.
C18_Witness ==
    /\ dec.op = "from_dict"
    /\ dec.n = 2
    /\ dec.payload.user = [kind |-> "dict", id |-> "2"]
    /\ dec.payload.roles.list = <<"2", "1">>
    /\ dec.role_ids = <<2, 1>>
    /\ cache.user = {2}
====
